---- MODULE Spec2Model ----
(***************************************************************************)
(* Model of evaluations/safety_eval.py: the adversarial safety-evaluation  *)
(* driver `main` and the chat responder adapter `callback`.                *)
(*                                                                         *)
(* Strings are sequences of characters (one-character TLA+ strings), so    *)
(* Python's + and [:14] are \o and SubSeq.  The external collaborators     *)
(* (AzureConfig, the evaluators, DefaultAzureCredential, the simulator,    *)
(* evaluate, get_response) are black boxes: every call either returns one  *)
(* of a small set of values or raises.  A simulation pass takes several    *)
(* steps: main calls the simulator and is suspended at the await, the      *)
(* simulator drives conversations through callback, and main resumes with  *)
(* the outcome of the await.                                               *)
(***************************************************************************)
EXTENDS Integers, Sequences, FiniteSets, TLC

VARIABLES
    \* ---- main ----
    pc,                 \* position of main
    azure_config,       \* the AzureConfig object of line 50
    azure_location,     \* azure_config.location as read at line 57
    environ,            \* the os.environ keys main has set
    azure_ai_project,   \* the (single, shared) dict built at lines 74-78
    evaluators_built,   \* evaluator objects constructed so far, in order
    simulator,          \* the AdversarialSimulator object, or None
    adversarial_conversation_result,
    adversarial_conversation_result_w_jailbreak,
    prefix,
    prefix_source,      \* what line 103 truncates: PREFIX, or the timestamp
    other_run,          \* prefix source and prefix of another run of main
    sim_calls,          \* log of simulator invocations
    eval_calls,         \* log of evaluate submissions
    files,              \* the two output paths on disk
    printed,            \* console lines, by kind
    \* ---- callback ----
    messages,           \* the envelope: messages["messages"] and
    template_parameters, \*              messages["template_parameters"]
    stream,
    session_state,
    cb_pc,              \* "idle" | "returned" | "raised"
    cb_entry,           \* messages["messages"] as it was on entry to the last call
    cb_return,          \* the dict the last call returned, or None
    chat_calls          \* log of get_response calls: <<query, history>>

main_vars == <<pc, azure_config, azure_location, environ, azure_ai_project, evaluators_built,
               simulator, adversarial_conversation_result,
               adversarial_conversation_result_w_jailbreak, prefix, sim_calls,
               eval_calls, files, printed, prefix_source, other_run>>

cb_vars == <<messages, template_parameters, stream, session_state, cb_pc,
             cb_entry, cb_return, chat_calls>>

vars == <<main_vars, cb_vars>>

\* a name not bound yet, or Python's None
None == [none |-> TRUE]
\* an environment variable that is not set
Absent == <<"<unset>">>

(***************************************************************************)
(* Bounds of the model.                                                    *)
(***************************************************************************)
\* longest conversation (number of messages) the simulator drives
MaxMessages == 4
\* get_response calls made in one run of main, over both passes
MaxChatCalls == 2

(***************************************************************************)
(* Program constants.                                                      *)
(***************************************************************************)
\* mutant: one more location accepted
valid_locations_wide ==
    {"eastus2", "francecentral", "uksouth", "swedencentral", "westus"}

\* line 67
valid_locations == {"eastus2", "francecentral", "uksouth", "swedencentral"}

\* locations a configuration may hold: the allowed ones and two others
Locations == valid_locations \cup {"invalidzone", "westus"}

max_conversation_turns == 1
max_simulation_results == 10
PrefixLen == 14

OutputPath == "./adversarial_test.json"
OutputPathJailbreak == "./adversarial_test_w_jailbreak.json"
Paths == {OutputPath, OutputPathJailbreak}

EvaluatorClasses == <<"SexualEvaluator", "SelfHarmEvaluator",
                      "HateUnfairnessEvaluator", "ViolenceEvaluator">>


Scenario == "ADVERSARIAL_QA"

\* what datetime.now().strftime("%y%m%d%H%M%S") can give: twelve digits
Timestamps ==
    { <<"2","6","1","0","3","0","1","1","2","5","0","0">>,
      <<"2","6","1","0","3","0","1","1","2","5","0","1">> }

\* values the PREFIX environment variable may hold
PrefixOverrides ==
    { <<"r","u","n">>,
      <<"n","i","g","h","t","l","y","-","s","a","f","e","t","y","-","A">>,
      <<"n","i","g","h","t","l","y","-","s","a","f","e","t","y","-","B">> }

\* the PREFIX override and the start time of another run of main
OtherOverride == <<"n","i","g","h","t","l","y","-","s","a","f","e","t","y","-","B">>
OtherTimestamp == <<"2","6","1","0","3","0","1","1","2","5","0","1">>

\* what a simulation pass may hand back: the transcript of that pass
Transcripts(jailbreak) == { [jailbreak |-> jailbreak] }

(***************************************************************************)
(* Pure helpers.                                                           *)
(***************************************************************************)
Min(a, b) == IF a <= b THEN a ELSE b

\* s[:n]
Take(s, n) == SubSeq(s, 1, Min(n, Len(s)))

\* os.getenv("PREFIX", default)
getenv(env_value, default) == IF env_value = Absent THEN default ELSE env_value

\* mutant: the slice is [:10]
RunPrefix_Short(env_value, now) == Take(getenv(env_value, now), 10)

\* line 103
RunPrefix(env_value, now) == Take(getenv(env_value, now), PrefixLen)

\* outputs.to_eval_qa_json_lines()
to_eval_qa_json_lines(outputs) == [format |-> "qa_json_lines", of |-> outputs]

\* f"{prefix} Adversarial Tests" and f"{prefix} Adversarial Tests w/ Jailbreak"
EvaluationName(p) == p \o <<" Adversarial Tests">>
EvaluationNameJailbreak(p) == p \o <<" Adversarial Tests w/ Jailbreak">>

\* the evaluators={...} dict of the four call sites
EvaluatorsArg ==
    [sexual          |-> evaluators_built[1],
     self_harm       |-> evaluators_built[2],
     hate_unfairness |-> evaluators_built[3],
     violence        |-> evaluators_built[4]]

\* d[key] = value on a dict: the key is added or overwritten
SetItem(d, key, value) == (key :> value) @@ d

\* the keyword arguments of an evaluate(...) call that passes azure_ai_project
EvaluateArgsWithProject(name, data, project, path) ==
    [evaluation_name  |-> name,
     data             |-> data,
     evaluators       |-> EvaluatorsArg,
     azure_ai_project |-> project,
     output_path      |-> path]

\* the keyword arguments of an evaluate(...) call that does not
EvaluateArgsLocal(name, data, path) ==
    [evaluation_name  |-> name,
     data             |-> data,
     evaluators       |-> EvaluatorsArg,
     output_path      |-> path]


(***************************************************************************)
(* The external calls.                                                     *)
(***************************************************************************)
\* how an evaluate(...) call can end: it returns (having written output_path),
\* it raises an Exception before writing or after writing (the upload fails),
\* or it ends with a BaseException that is not an Exception (KeyboardInterrupt,
\* SystemExit), before writing or after
EvaluateOutcomes ==
    {"returned", "raised", "written_then_raised",
     "interrupted", "written_then_interrupted"}

\* the call raised an Exception: what "except Exception" catches
Raised(outcome) == outcome \in {"raised", "written_then_raised"}

\* the call ended with a BaseException that "except Exception" does not catch
Interrupted(outcome) == outcome \in {"interrupted", "written_then_interrupted"}

\* the call wrote output_path before it ended
Wrote(outcome) ==
    outcome \in {"returned", "written_then_raised", "written_then_interrupted"}

\* the files after an evaluate(...) call with these arguments ended this way
FilesAfterEvaluate(args, outcome) ==
    IF Wrote(outcome)
    THEN [files EXCEPT ![args.output_path] =
             [writes |-> @.writes + 1, content |-> <<args.data>>]]
    ELSE files

\* one evaluate(...) submission: logged, and its effect on the disk
Evaluate(phase, attempt, args, outcome) ==
    /\ eval_calls' = Append(eval_calls,
           [phase |-> phase, attempt |-> attempt, args |-> args, outcome |-> outcome])
    /\ files' = FilesAfterEvaluate(args, outcome)

\* simulator(...) is called and main is suspended at the await: the pass is
\* logged as pending, with the azure_ai_project dict the simulator holds (the
\* one main keeps mutating) as it is at that time
SimulatorCall(kwargs) ==
    sim_calls' = Append(sim_calls,
        [kwargs        |-> kwargs,
         project       |-> azure_ai_project,
         conversations |-> 0,
         outcome       |-> "pending"])

\* the pass main is suspended in
CurrentPass == sim_calls[Len(sim_calls)]

\* main resumes from the await: the pending pass gets its outcome
SimulatorResult(outcome) ==
    sim_calls' = [sim_calls EXCEPT ![Len(sim_calls)].outcome = outcome]

\* print(...): one console line, recorded by its kind
Console(kind) == printed' = printed \o kind


(***************************************************************************)
(* Control flow of main's try/except blocks.                               *)
(***************************************************************************)
\* mutants: a failed pass goes on to the evaluation / leaves main as an exception
AfterSimulation_Continue(outcome, next) == next
AfterSimulation_Propagate(outcome, next) ==
    IF outcome = "returned" THEN next ELSE "raised"

\* lines 89-101 and 139-150: a pass that raised an Exception ends the run by
\* the return of the handler; "except Exception" does not catch a
\* BaseException such as asyncio.CancelledError, which leaves main
AfterSimulation(outcome, next) ==
    IF outcome = "returned" THEN next
    ELSE IF outcome = "cancelled" THEN "raised"
    ELSE "returned"

\* mutant: a first submission that raised is not retried
AfterFirstAttempt_SkipRetry(outcome, retry, next) == next

\* mutant: the retry is made whether or not the first submission raised
AfterFirstAttempt_AlwaysRetry(outcome, retry, next) == retry

\* lines 106-121 and 153-167: a first submission that raised an Exception
\* leads to the retry; a BaseException passes "except Exception" and leaves main
AfterFirstAttempt(outcome, retry, next) ==
    IF Interrupted(outcome) THEN "raised"
    ELSE IF Raised(outcome) THEN retry
    ELSE next

\* mutant: a retry that raised is made again
AfterRetry_Loop(outcome, next) ==
    IF Raised(outcome)
    THEN (IF next = "summary" THEN "evaluate_jailbreak_retry" ELSE "evaluate_retry")
    ELSE next

\* mutants: a failed retry goes on / a successful retry ends the run
AfterRetry_Continue(outcome, next) == next
AfterRetry_Abort(outcome, next) == "returned"

\* lines 122-136 and 168-182: a retry that raised an Exception ends the run by
\* the return of the handler; a BaseException passes "except Exception" and
\* leaves main
AfterRetry(outcome, next) ==
    IF Interrupted(outcome) THEN "raised"
    ELSE IF Raised(outcome) THEN "returned"
    ELSE next

(***************************************************************************)
(* main                                                                    *)
(***************************************************************************)
\* the locals of main when it is entered
MainStart ==
    /\ pc = "load_config"
    /\ azure_config = None
    /\ azure_location = ""
    /\ environ = {}
    /\ azure_ai_project = None
    /\ evaluators_built = <<>>
    /\ simulator = None
    /\ adversarial_conversation_result = None
    /\ adversarial_conversation_result_w_jailbreak = None
    /\ prefix = <<>>
    /\ sim_calls = <<>>
    /\ eval_calls = <<>>
    /\ files = [p \in Paths |-> [writes |-> 0, content |-> <<>>]]
    /\ printed = <<>>
    /\ prefix_source = <<>>

\* the prefix source and the prefix of the runs this run may be compared with
OtherRuns ==
    { [source |-> getenv(env_value, now), prefix |-> RunPrefix(env_value, now)] :
         env_value \in {Absent, OtherOverride}, now \in {OtherTimestamp} }

\* one run of main on its own
MainInit == MainStart /\ other_run = None

\* line 50: azure_config = AzureConfig()
LoadConfig ==
    /\ pc = "load_config"
    /\ \/ /\ \E loc \in Locations :
                azure_config' = [aoai_endpoint   |-> "endpoint",
                                 aoai_api_key    |-> "key",
                                 location        |-> loc,
                                 subscription_id |-> "sub",
                                 resource_group  |-> "rg",
                                 workspace_name  |-> "proj"]
          /\ pc' = "set_environment"
       \/ /\ pc' = "raised"
          /\ UNCHANGED azure_config
    /\ UNCHANGED <<azure_location, environ, azure_ai_project, evaluators_built,
                   simulator, adversarial_conversation_result,
                   adversarial_conversation_result_w_jailbreak, prefix, sim_calls,
                   eval_calls, files, printed, cb_vars, prefix_source, other_run>>

\* lines 53-54: the two os.environ assignments; either may raise
SetEnvironment ==
    /\ pc = "set_environment"
    /\ \/ /\ environ' = environ \cup {"AZURE_OPENAI_ENDPOINT", "AZURE_OPENAI_API_KEY"}
          /\ pc' = "check_location"
       \/ /\ environ' = environ \cup {"AZURE_OPENAI_ENDPOINT"}
          /\ pc' = "raised"
       \/ /\ environ' = environ
          /\ pc' = "raised"
    /\ UNCHANGED <<azure_config, azure_location, azure_ai_project, evaluators_built,
                   simulator, adversarial_conversation_result,
                   adversarial_conversation_result_w_jailbreak, prefix, sim_calls,
                   eval_calls, files, printed, cb_vars, prefix_source, other_run>>

\* lines 57-78: read the configuration, echo it, validate the location and
\* build the azure_ai_project dict
CheckLocation ==
    /\ pc = "check_location"
    /\ azure_location' = azure_config.location
    /\ IF azure_location' \notin valid_locations
       THEN /\ Console(<<"config", "invalid_location">>)
            /\ pc' = "returned"
            /\ UNCHANGED azure_ai_project
       ELSE /\ Console(<<"config">>)
            /\ azure_ai_project' =
                   [subscription_id     |-> azure_config.subscription_id,
                    resource_group_name |-> azure_config.resource_group,
                    project_name        |-> azure_config.workspace_name]
            /\ pc' = "construct_evaluators"
    /\ UNCHANGED <<azure_config, environ, evaluators_built, simulator,
                   adversarial_conversation_result,
                   adversarial_conversation_result_w_jailbreak, prefix, sim_calls,
                   eval_calls, files, cb_vars, prefix_source, other_run>>

\* lines 79-82: the four evaluator constructions, in order; each may raise
ConstructEvaluator ==
    /\ pc = "construct_evaluators"
    /\ \/ /\ evaluators_built' = Append(evaluators_built,
                 [class |-> EvaluatorClasses[Len(evaluators_built) + 1],
                  azure_ai_project |-> azure_ai_project])
          /\ pc' = IF Len(evaluators_built') = Len(EvaluatorClasses)
                   THEN "get_credential" ELSE "construct_evaluators"
       \/ /\ pc' = "raised"
          /\ UNCHANGED evaluators_built
    /\ UNCHANGED <<azure_config, azure_location, environ, azure_ai_project,
                   simulator, adversarial_conversation_result,
                   adversarial_conversation_result_w_jailbreak, prefix, sim_calls,
                   eval_calls, files, printed, cb_vars, prefix_source, other_run>>

\* lines 84-85: azure_ai_project["credential"] = DefaultAzureCredential()
GetCredential ==
    /\ pc = "get_credential"
    /\ \/ /\ azure_ai_project' =
                 SetItem(azure_ai_project, "credential", "DefaultAzureCredential()")
          /\ pc' = "construct_simulator"
       \/ /\ pc' = "raised"
          /\ UNCHANGED azure_ai_project
    /\ UNCHANGED <<azure_config, azure_location, environ, evaluators_built,
                   simulator, adversarial_conversation_result,
                   adversarial_conversation_result_w_jailbreak, prefix, sim_calls,
                   eval_calls, files, printed, cb_vars, prefix_source, other_run>>

\* line 86: simulator = AdversarialSimulator(azure_ai_project=azure_ai_project)
ConstructSimulator ==
    /\ pc = "construct_simulator"
    /\ \/ /\ simulator' = [constructed_with |-> azure_ai_project]
          /\ pc' = "simulate"
       \/ /\ pc' = "raised"
          /\ UNCHANGED simulator
    /\ UNCHANGED <<azure_config, azure_location, environ, azure_ai_project,
                   evaluators_built, adversarial_conversation_result,
                   adversarial_conversation_result_w_jailbreak, prefix, sim_calls,
                   eval_calls, files, printed, cb_vars, prefix_source, other_run>>


\* how a simulation pass can end: the transcript is converted, the simulator
\* raises an Exception, the simulator returns and to_eval_qa_json_lines()
\* raises, or the await ends with a BaseException (asyncio.CancelledError).
\* The simulator is a black box: it may end in any of these ways at any point
\* of its work, whether or not the target raised (it may let the target's
\* exception through or handle it)
PassOutcomes == {"returned", "raised", "conversion_raised", "cancelled"}

\* main is suspended at the await of line 90 or of line 140
SimulatorRunning == pc \in {"await_simulator", "await_simulator_jailbreak"}

\* the console line of a pass that ended this way (an uncaught exception
\* prints nothing)
PassLine(outcome, done, failed) ==
    IF outcome = "returned" THEN <<done>>
    ELSE IF outcome = "cancelled" THEN <<>>
    ELSE <<failed>>

\* lines 90-96
BaselineSimulatorArgs ==
    [scenario               |-> Scenario,
     target                 |-> "callback",
     max_conversation_turns |-> max_conversation_turns,
     max_simulation_results |-> max_simulation_results,
     jailbreak              |-> FALSE]

\* lines 140-145: no max_conversation_turns
JailbreakSimulatorArgs ==
    [scenario               |-> Scenario,
     target                 |-> "callback",
     max_simulation_results |-> max_simulation_results,
     jailbreak              |-> TRUE]

\* mutant: the credential is left in place
BlankedProject_Kept == azure_ai_project

\* line 107: azure_ai_project["credential"] = "", on the dict the simulator holds
BlankedProject == SetItem(azure_ai_project, "credential", "")

\* lines 108-119
BaselineFirstArgs ==
    EvaluateArgsWithProject(EvaluationName(prefix), adversarial_conversation_result,
                            azure_ai_project', OutputPath)

\* mutant: the retry still passes azure_ai_project
BaselineRetryArgs_WithProject ==
    EvaluateArgsWithProject(EvaluationName(prefix), adversarial_conversation_result,
                            azure_ai_project, OutputPath)

\* lines 123-133
BaselineRetryArgs ==
    EvaluateArgsLocal(EvaluationName(prefix), adversarial_conversation_result,
                      OutputPath)

\* mutant: the jailbreak submission is given the baseline transcript
JailbreakFirstArgs_BaselineData ==
    EvaluateArgsWithProject(EvaluationNameJailbreak(prefix),
                            adversarial_conversation_result,
                            azure_ai_project, OutputPathJailbreak)

\* lines 154-165
JailbreakFirstArgs ==
    EvaluateArgsWithProject(EvaluationNameJailbreak(prefix),
                            adversarial_conversation_result_w_jailbreak,
                            azure_ai_project, OutputPathJailbreak)

\* mutant: the jailbreak retry is given the baseline phase's output path
JailbreakRetryArgs_BaselinePath ==
    EvaluateArgsLocal(EvaluationNameJailbreak(prefix),
                      adversarial_conversation_result_w_jailbreak,
                      OutputPath)

\* lines 169-179
JailbreakRetryArgs ==
    EvaluateArgsLocal(EvaluationNameJailbreak(prefix),
                      adversarial_conversation_result_w_jailbreak,
                      OutputPathJailbreak)

\* lines 88-96: simulator(...) is called for the non-jailbreak pass and main
\* is suspended at the await of line 90
CallSimulatorBaseline ==
    /\ pc = "simulate"
    /\ SimulatorCall(BaselineSimulatorArgs)
    /\ pc' = "await_simulator"
    /\ UNCHANGED <<azure_config, azure_location, environ, azure_ai_project,
                   evaluators_built, simulator, adversarial_conversation_result,
                   adversarial_conversation_result_w_jailbreak, prefix,
                   eval_calls, files, printed, cb_vars, prefix_source, other_run>>

\* lines 90-101: main resumes from the await of the non-jailbreak pass
SimulateBaseline ==
    /\ pc = "await_simulator"
    /\ \E outcome \in PassOutcomes, outputs \in Transcripts(FALSE) :
          /\ SimulatorResult(outcome)
          /\ adversarial_conversation_result' =
                IF outcome = "returned" THEN to_eval_qa_json_lines(outputs)
                ELSE adversarial_conversation_result
          /\ Console(PassLine(outcome, "results", "simulation_failed"))
          /\ pc' = AfterSimulation(outcome, "compute_prefix")
    /\ UNCHANGED <<azure_config, azure_location, environ, azure_ai_project,
                   evaluators_built, simulator,
                   adversarial_conversation_result_w_jailbreak, prefix,
                   eval_calls, files, cb_vars, prefix_source, other_run>>

\* line 103: prefix = os.getenv("PREFIX", datetime.now().strftime(...))[:14]
ComputePrefix ==
    /\ pc = "compute_prefix"
    /\ \E env_value \in PrefixOverrides \cup {Absent}, now \in Timestamps :
          /\ prefix_source' = getenv(env_value, now)
          /\ prefix' = RunPrefix(env_value, now)
    /\ pc' = "evaluate"
    /\ UNCHANGED <<azure_config, azure_location, environ, azure_ai_project,
                   evaluators_built, simulator, adversarial_conversation_result,
                   adversarial_conversation_result_w_jailbreak, sim_calls,
                   eval_calls, files, printed, cb_vars, other_run>>

\* lines 105-121: blank the credential, then the first baseline submission
EvaluateBaseline ==
    /\ pc = "evaluate"
    /\ azure_ai_project' = BlankedProject
    /\ \E outcome \in EvaluateOutcomes :
          /\ Evaluate("baseline", 1, BaselineFirstArgs, outcome)
          /\ IF Raised(outcome)
             THEN Console(<<"evaluation_warning">>)
             ELSE UNCHANGED printed
          /\ pc' = AfterFirstAttempt(outcome, "evaluate_retry", "simulate_jailbreak")
    /\ UNCHANGED <<azure_config, azure_location, environ, evaluators_built,
                   simulator, adversarial_conversation_result,
                   adversarial_conversation_result_w_jailbreak, prefix, sim_calls,
                   cb_vars, prefix_source, other_run>>

\* lines 122-136: the baseline retry, without azure_ai_project
EvaluateBaselineRetry ==
    /\ pc = "evaluate_retry"
    /\ \E outcome \in EvaluateOutcomes :
          /\ Evaluate("baseline", 2, BaselineRetryArgs, outcome)
          /\ IF Raised(outcome)
             THEN Console(<<"retry_failed">>)
             ELSE UNCHANGED printed
          /\ pc' = AfterRetry(outcome, "simulate_jailbreak")
    /\ UNCHANGED <<azure_config, azure_location, environ, azure_ai_project,
                   evaluators_built, simulator, adversarial_conversation_result,
                   adversarial_conversation_result_w_jailbreak, prefix, sim_calls,
                   cb_vars, prefix_source, other_run>>

\* lines 138-145: simulator(...) is called for the jailbreak pass and main is
\* suspended at the await of line 140
CallSimulatorJailbreak ==
    /\ pc = "simulate_jailbreak"
    /\ SimulatorCall(JailbreakSimulatorArgs)
    /\ pc' = "await_simulator_jailbreak"
    /\ UNCHANGED <<azure_config, azure_location, environ, azure_ai_project,
                   evaluators_built, simulator, adversarial_conversation_result,
                   adversarial_conversation_result_w_jailbreak, prefix,
                   eval_calls, files, printed, cb_vars, prefix_source, other_run>>

\* lines 140-150: main resumes from the await of the jailbreak pass
SimulateJailbreak ==
    /\ pc = "await_simulator_jailbreak"
    /\ \E outcome \in PassOutcomes, jb_outputs \in Transcripts(TRUE) :
          /\ SimulatorResult(outcome)
          /\ adversarial_conversation_result_w_jailbreak' =
                IF outcome = "returned" THEN to_eval_qa_json_lines(jb_outputs)
                ELSE adversarial_conversation_result_w_jailbreak
          /\ Console(PassLine(outcome, "jailbreak_results",
                                      "jailbreak_simulation_failed"))
          /\ pc' = AfterSimulation(outcome, "evaluate_jailbreak")
    /\ UNCHANGED <<azure_config, azure_location, environ, azure_ai_project,
                   evaluators_built, simulator, adversarial_conversation_result,
                   prefix, eval_calls, files, cb_vars, prefix_source, other_run>>

\* lines 152-167: the first jailbreak submission
EvaluateJailbreak ==
    /\ pc = "evaluate_jailbreak"
    /\ \E outcome \in EvaluateOutcomes :
          /\ Evaluate("jailbreak", 1, JailbreakFirstArgs, outcome)
          /\ IF Raised(outcome)
             THEN Console(<<"jailbreak_evaluation_warning">>)
             ELSE UNCHANGED printed
          /\ pc' = AfterFirstAttempt(outcome, "evaluate_jailbreak_retry", "summary")
    /\ UNCHANGED <<azure_config, azure_location, environ, azure_ai_project,
                   evaluators_built, simulator, adversarial_conversation_result,
                   adversarial_conversation_result_w_jailbreak, prefix, sim_calls,
                   cb_vars, prefix_source, other_run>>

\* lines 168-182: the jailbreak retry, without azure_ai_project
EvaluateJailbreakRetry ==
    /\ pc = "evaluate_jailbreak_retry"
    /\ \E outcome \in EvaluateOutcomes :
          /\ Evaluate("jailbreak", 2, JailbreakRetryArgs, outcome)
          /\ IF Raised(outcome)
             THEN Console(<<"jailbreak_retry_failed">>)
             ELSE UNCHANGED printed
          /\ pc' = AfterRetry(outcome, "summary")
    /\ UNCHANGED <<azure_config, azure_location, environ, azure_ai_project,
                   evaluators_built, simulator, adversarial_conversation_result,
                   adversarial_conversation_result_w_jailbreak, prefix, sim_calls,
                   cb_vars, prefix_source, other_run>>

\* mutant: the closing line is printed only when some result was uploaded
PrintSummary_OnlyIfUploaded ==
    /\ pc = "summary"
    /\ IF \E i \in 1..Len(eval_calls) :
             eval_calls[i].attempt = 1 /\ eval_calls[i].outcome = "returned"
       THEN Console(<<"summary">>)
       ELSE UNCHANGED printed
    /\ pc' = "returned"
    /\ UNCHANGED <<azure_config, azure_location, environ, azure_ai_project,
                   evaluators_built, simulator, adversarial_conversation_result,
                   adversarial_conversation_result_w_jailbreak, prefix, sim_calls,
                   eval_calls, files, cb_vars, prefix_source, other_run>>

\* line 184: the closing line, then main returns
PrintSummary ==
    /\ pc = "summary"
    /\ Console(<<"summary">>)
    /\ pc' = "returned"
    /\ UNCHANGED <<azure_config, azure_location, environ, azure_ai_project,
                   evaluators_built, simulator, adversarial_conversation_result,
                   adversarial_conversation_result_w_jailbreak, prefix, sim_calls,
                   eval_calls, files, cb_vars, prefix_source, other_run>>


(***************************************************************************)
(* callback                                                                *)
(***************************************************************************)
\* contents of the user messages the simulator writes
UserContents == { <<"a">>, <<"b", "c">> }

\* answers of the chat function
Answers == { <<"x">>, <<"a">> }

\* messages["template_parameters"]: without and with a file_content entry
TemplateParameters ==
    { [category |-> "qa"] }
    \cup { [category |-> "summarization", file_content |-> f] :
              f \in { <<>>, <<"f">>, <<"a">> } }

SessionStates == { None, [token |-> 1] }

EmptyDict == <<>>

UserMessage(content) == [content |-> content, role |-> "user"]

\* mutant: the file content is not appended
ComposeQuery_NoFile(msgs, params) == msgs[1].content

\* lines 24-29: the query composed from the envelope
ComposeQuery(msgs, params) ==
    IF "file_content" \in DOMAIN params
    THEN msgs[1].content \o params.file_content
    ELSE msgs[1].content

\* lines 34-38
FormattedResponse(response) ==
    [content |-> response, role |-> "assistant", context |-> EmptyDict]

\* mutant: the response replaces the last message
AppendResponse_Overwrite(msgs, response) ==
    [msgs EXCEPT ![Len(msgs)] = [content |-> response, role |-> "assistant",
                                 context |-> EmptyDict]]

\* line 40: messages["messages"].append(formatted_response)
AppendResponse(msgs, response) == Append(msgs, FormattedResponse(response))

\* mutant: the defaults of the signature are returned instead of the arguments
CallbackResult_Defaults(msgs, stream_flag, state) ==
    [messages |-> msgs, stream |-> FALSE, session_state |-> None]

\* lines 41-45
CallbackResult(msgs, stream_flag, state) ==
    [messages |-> msgs, stream |-> stream_flag, session_state |-> state]

CallbackInit ==
    /\ messages \in { <<>> } \cup { <<UserMessage(c)>> : c \in UserContents }
    /\ template_parameters \in TemplateParameters
    /\ stream \in BOOLEAN
    /\ session_state \in SessionStates
    /\ cb_pc = "idle"
    /\ cb_entry = <<>>
    /\ cb_return = None
    /\ chat_calls = <<>>

\* the callback part when main starts: the target has not been called
CallbackIdle ==
    /\ messages = <<>>
    /\ template_parameters = [category |-> "qa"]
    /\ stream = FALSE
    /\ session_state = None
    /\ cb_pc = "idle"
    /\ cb_entry = <<>>
    /\ cb_return = None
    /\ chat_calls = <<>>

\* lines 19-45, get_response returns: the answer is appended and returned
CallbackReturns ==
    /\ cb_pc # "raised"
    /\ Len(messages) >= 1
    /\ Len(messages) < MaxMessages
    /\ \E answer \in Answers :
          /\ chat_calls' = Append(chat_calls,
                 [query   |-> ComposeQuery(messages, template_parameters),
                  history |-> <<>>,
                  result  |-> <<"answer", answer>>])
          /\ messages' = AppendResponse(messages, answer)
    /\ cb_entry' = messages
    /\ cb_return' = CallbackResult(messages', stream, session_state)
    /\ cb_pc' = "returned"
    /\ UNCHANGED <<template_parameters, stream, session_state, main_vars>>

\* mutant: a get_response call that raised is made a second time
CallbackChatRaises_Retry ==
    /\ cb_pc # "raised"
    /\ Len(messages) >= 1
    /\ Len(messages) < MaxMessages
    /\ \E answer \in Answers :
          /\ chat_calls' = chat_calls \o
                 << [query   |-> ComposeQuery(messages, template_parameters),
                     history |-> <<>>,
                     result  |-> <<"raised">>],
                    [query   |-> ComposeQuery(messages, template_parameters),
                     history |-> <<>>,
                     result  |-> <<"answer", answer>>] >>
          /\ messages' = AppendResponse(messages, answer)
    /\ cb_entry' = messages
    /\ cb_return' = CallbackResult(messages', stream, session_state)
    /\ cb_pc' = "returned"
    /\ UNCHANGED <<template_parameters, stream, session_state, main_vars>>

\* lines 19-31, get_response raises: the exception leaves callback
CallbackChatRaises ==
    /\ cb_pc # "raised"
    /\ Len(messages) >= 1
    /\ chat_calls' = Append(chat_calls,
           [query   |-> ComposeQuery(messages, template_parameters),
            history |-> <<>>,
            result  |-> <<"raised">>])
    /\ cb_entry' = messages
    /\ cb_return' = None
    /\ cb_pc' = "raised"
    /\ UNCHANGED <<messages, template_parameters, stream, session_state, main_vars>>

\* line 24 on an empty message list: IndexError, before any call
CallbackIndexError ==
    /\ cb_pc # "raised"
    /\ Len(messages) = 0
    /\ cb_entry' = messages
    /\ cb_return' = None
    /\ cb_pc' = "raised"
    /\ UNCHANGED <<messages, template_parameters, stream, session_state,
                   chat_calls, main_vars>>

\* the simulator continues the conversation: it adds the next user message to
\* the list it will pass to the next call (no turn cap in the jailbreak pass)
SimulatorUserTurn ==
    /\ cb_pc = "returned"
    /\ Len(messages) + 1 < MaxMessages
    /\ \E c \in UserContents : messages' = Append(messages, UserMessage(c))
    /\ cb_pc' = "idle"
    /\ UNCHANGED <<template_parameters, stream, session_state, cb_entry,
                   cb_return, chat_calls, main_vars>>

(***************************************************************************)
(* The simulator at work while main is suspended at an await: it starts    *)
(* conversations and awaits the target, callback, on each of them.         *)
(***************************************************************************)
\* the user message the simulator opens a conversation with
OpeningContent == <<"a">>

\* the target can be awaited once more within the bounds of the model
TargetCallable ==
    /\ SimulatorRunning
    /\ CurrentPass.conversations >= 1
    /\ Len(chat_calls) < MaxChatCalls

\* the simulator opens a conversation: a fresh envelope with the first user
\* message, for the ADVERSARIAL_QA scenario; the target will be awaited as
\* callback(envelope), with the defaults stream=False, session_state=None
SimulatorStartsConversation ==
    /\ SimulatorRunning
    /\ CurrentPass.conversations < max_simulation_results
    /\ IF CurrentPass.conversations = 0 THEN TRUE ELSE cb_pc # "idle"
    /\ Len(chat_calls) < MaxChatCalls
    /\ sim_calls' = [sim_calls EXCEPT ![Len(sim_calls)].conversations = @ + 1]
    /\ messages' = <<UserMessage(OpeningContent)>>
    /\ template_parameters' = [category |-> "qa"]
    /\ stream' = FALSE
    /\ session_state' = None
    /\ cb_pc' = "idle"
    /\ UNCHANGED <<pc, azure_config, azure_location, environ, azure_ai_project,
                   evaluators_built, simulator, adversarial_conversation_result,
                   adversarial_conversation_result_w_jailbreak, prefix,
                   eval_calls, files, printed, prefix_source, other_run,
                   cb_entry, cb_return, chat_calls>>

\* the simulator awaits callback on the conversation and callback returns
SimulatorAwaitsCallback ==
    /\ TargetCallable
    /\ cb_pc = "idle"
    /\ CallbackReturns

\* the simulator awaits callback on the conversation and get_response raises
SimulatorCallbackRaises ==
    /\ TargetCallable
    /\ cb_pc = "idle"
    /\ CallbackChatRaises

\* the jailbreak pass sets no max_conversation_turns: the simulator may go on
\* with a further user turn; the non-jailbreak pass is capped at one turn
SimulatorNextTurn ==
    /\ TargetCallable
    /\ CurrentPass.kwargs.jailbreak
    /\ SimulatorUserTurn

(***************************************************************************)
(* Specifications.                                                         *)
(***************************************************************************)
Init == MainInit /\ CallbackIdle

Next ==
    \/ LoadConfig
    \/ SetEnvironment
    \/ CheckLocation
    \/ ConstructEvaluator
    \/ GetCredential
    \/ ConstructSimulator
    \/ CallSimulatorBaseline
    \/ SimulateBaseline
    \/ ComputePrefix
    \/ EvaluateBaseline
    \/ EvaluateBaselineRetry
    \/ CallSimulatorJailbreak
    \/ SimulateJailbreak
    \/ SimulatorStartsConversation
    \/ SimulatorAwaitsCallback
    \/ SimulatorCallbackRaises
    \/ SimulatorNextTurn
    \/ EvaluateJailbreak
    \/ EvaluateJailbreakRetry
    \/ PrintSummary

\* one run of main
Spec == Init /\ [][Next]_vars

InitCallback == MainInit /\ CallbackInit

NextCallback ==
    \/ CallbackReturns
    \/ CallbackChatRaises
    \/ CallbackIndexError
    \/ SimulatorUserTurn

\* one run of main in which every step main is at is eventually taken: main is
\* a single coroutine, and every external call eventually returns or raises
FairSpec ==
    Spec /\ WF_vars(Next) /\ WF_vars(SimulateBaseline) /\ WF_vars(SimulateJailbreak)

\* one run of main, next to the naming of another run
InitRuns == MainStart /\ other_run \in OtherRuns /\ CallbackIdle

SpecRuns == InitRuns /\ [][Next]_vars

\* one simulated conversation driven through callback
SpecCallback == InitCallback /\ [][NextCallback]_vars


(***************************************************************************)
(* Vocabulary of the properties.                                           *)
(***************************************************************************)
Phases == {"baseline", "jailbreak"}

PhaseCalls(ph) == SelectSeq(eval_calls, LAMBDA c : c.phase = ph)

RetryPc(ph) == IF ph = "baseline" THEN "evaluate_retry" ELSE "evaluate_jailbreak_retry"

\* a dict without one key
Without(d, key) == [k \in DOMAIN d \ {key} |-> d[k]]

FourEvaluators(e) ==
    /\ DOMAIN e = {"sexual", "self_harm", "hate_unfairness", "violence"}
    /\ e.sexual.class = "SexualEvaluator"
    /\ e.self_harm.class = "SelfHarmEvaluator"
    /\ e.hate_unfairness.class = "HateUnfairnessEvaluator"
    /\ e.violence.class = "ViolenceEvaluator"

Contains(seq, x) == \E i \in 1..Len(seq) : seq[i] = x

Count(seq, x) == Cardinality({i \in 1..Len(seq) : seq[i] = x})

JailbreakSimulationInvoked == \E i \in 1..Len(sim_calls) : sim_calls[i].kwargs.jailbreak

\* the passes that were begun and have not ended: main is suspended in them
PendingPasses == {i \in 1..Len(sim_calls) : sim_calls[i].outcome = "pending"}

\* the passes that ended with an Exception: raised by the simulator (or by the
\* target, through it) or by the conversion of the transcript
FailedPasses ==
    {i \in 1..Len(sim_calls) : sim_calls[i].outcome \in {"raised", "conversion_raised"}}

\* the passes whose await ended with a BaseException that is not an Exception
CancelledPasses == {i \in 1..Len(sim_calls) : sim_calls[i].outcome = "cancelled"}

Ended == pc \in {"returned", "raised"}

(***************************************************************************)
(* Properties of main (specification Spec).                                *)
(***************************************************************************)
\* the submissions of a phase are a first one, with azure_ai_project and the
\* four evaluators, and at most one fallback, which is the first one without
\* its azure_ai_project argument (same name, data, evaluators and output path)
PhaseSubmissions(calls) ==
    /\ Len(calls) <= 2
    /\ Len(calls) >= 1 =>
          /\ calls[1].attempt = 1
          /\ "azure_ai_project" \in DOMAIN calls[1].args
          /\ FourEvaluators(calls[1].args.evaluators)
    /\ Len(calls) = 2 =>
          /\ calls[2].attempt = 2
          /\ "azure_ai_project" \notin DOMAIN calls[2].args
          /\ calls[2].args = Without(calls[1].args, "azure_ai_project")

\* C1 as claimed: a first submission that ended by an exception, whichever it
\* is, is followed by exactly one fallback submission of the same phase, the
\* first one without its azure_ai_project argument; no phase makes more than
\* two submissions
C1_EveryRaiseGetsFallback ==
    \A ph \in Phases :
        LET calls == PhaseCalls(ph) IN
        /\ PhaseSubmissions(calls)
        /\ (Len(calls) = 1 /\ calls[1].outcome # "returned") => pc = RetryPc(ph)
        /\ Len(calls) = 2 => calls[1].outcome # "returned"

\* C1 as amended: a first submission that raised an Exception is followed by
\* exactly one fallback submission of the same phase, which is the first one
\* without its azure_ai_project argument (same name, data, four evaluators and
\* output path); a fallback is made only after a first submission that raised
\* an Exception; a first submission that ended with a BaseException that is
\* not an Exception has no fallback, main ended by that exception; no phase
\* makes more than two submissions.
C1_OneFallbackWithoutProject ==
    \A ph \in Phases :
        LET calls == PhaseCalls(ph) IN
        /\ PhaseSubmissions(calls)
        /\ (Len(calls) = 1 /\ Raised(calls[1].outcome)) => pc = RetryPc(ph)
        /\ Len(calls) = 2 => Raised(calls[1].outcome)
        /\ (Len(calls) >= 1 /\ Interrupted(calls[1].outcome)) =>
              /\ Len(calls) = 1
              /\ pc = "raised"
              /\ eval_calls[Len(eval_calls)] = calls[1]

\* C1 witness: both phases made a first submission that raised and their fallback
C1_Witness ==
    /\ Len(PhaseCalls("baseline")) = 2
    /\ Len(PhaseCalls("jailbreak")) = 2
    /\ PhaseCalls("jailbreak")[1].outcome = "written_then_raised"

RetryFailed(ph) ==
    \E i \in 1..Len(eval_calls) :
        /\ eval_calls[i].phase = ph
        /\ eval_calls[i].attempt = 2
        /\ eval_calls[i].outcome # "returned"

\* C2: once the fallback submission of a phase has raised, the run is over (main
\* has returned, or has ended by the exception when "except Exception" does not
\* catch it): that submission is the last external call of the run, no step of
\* main is left to take, and the summary line is not printed; after a double failure of
\* the baseline phase there is no jailbreak simulation and no jailbreak
\* submission.
C2_RetryFailureAborts ==
    \A ph \in Phases :
        RetryFailed(ph) =>
            /\ pc = IF Raised(eval_calls[Len(eval_calls)].outcome)
                    THEN "returned" ELSE "raised"
            /\ ~ ENABLED Next
            /\ eval_calls[Len(eval_calls)].outcome # "returned"
            /\ eval_calls[Len(eval_calls)].phase = ph
            /\ eval_calls[Len(eval_calls)].attempt = 2
            /\ ~ Contains(printed, "summary")
            /\ ph = "baseline" =>
                  /\ ~ JailbreakSimulationInvoked
                  /\ Len(sim_calls) = 1
                  /\ PhaseCalls("jailbreak") = <<>>

\* C2 witness: the baseline fallback raised and main has returned
C2_Witness ==
    /\ RetryFailed("baseline")
    /\ pc = "returned"
    /\ printed[Len(printed)] = "retry_failed"

\* the configuration was loaded with a location outside the four allowed ones
InvalidLocationConfigured ==
    /\ azure_config # None
    /\ azure_config.location \notin
           {"eastus2", "francecentral", "uksouth", "swedencentral"}

\* C3 as claimed: with a configured location outside eastus2, francecentral,
\* uksouth, swedencentral main makes no external call and ends only by
\* returning, with the invalid-location message printed
C3_InvalidLocationPrintsAndReturns ==
    InvalidLocationConfigured =>
        /\ evaluators_built = <<>>
        /\ simulator = None
        /\ sim_calls = <<>>
        /\ eval_calls = <<>>
        /\ pc \in {"set_environment", "check_location", "returned"}
        /\ pc = "returned" => Contains(printed, "invalid_location")

\* C3 as amended: with a configured location outside eastus2, francecentral,
\* uksouth, swedencentral no evaluator is constructed, no credential is
\* obtained, the simulator is neither constructed nor invoked, the target is
\* never called and evaluate is never called; a main that got past the
\* environment setup of lines 53-54 printed the invalid-location message and
\* returned; a main in which that setup raised ended by the exception, before
\* the location was examined, with nothing printed.
C3_InvalidLocationNoExternalCalls ==
    InvalidLocationConfigured
    => /\ evaluators_built = <<>>
       /\ azure_ai_project = None
       /\ simulator = None
       /\ sim_calls = <<>>
       /\ chat_calls = <<>>
       /\ eval_calls = <<>>
       /\ files = [p \in Paths |-> [writes |-> 0, content |-> <<>>]]
       /\ pc \in {"set_environment", "check_location", "returned", "raised"}
       /\ pc = "returned" => printed = <<"config", "invalid_location">>
       /\ pc = "raised" => printed = <<>> /\ azure_location = ""

\* C3 witness: main returned on the location westus
C3_Witness ==
    /\ pc = "returned"
    /\ azure_location = "westus"
    /\ Contains(printed, "invalid_location")

FailureLines ==
    {"simulation_failed", "jailbreak_simulation_failed", "evaluation_warning",
     "jailbreak_evaluation_warning", "retry_failed", "jailbreak_retry_failed"}

FailedCalls ==
    Cardinality(FailedPasses)
    + Cardinality({i \in 1..Len(eval_calls) : Raised(eval_calls[i].outcome)})

\* the submissions that ended with a BaseException that is not an Exception
InterruptedSubmissions ==
    {i \in 1..Len(eval_calls) : Interrupted(eval_calls[i].outcome)}

LoggedFailures ==
    Cardinality({i \in 1..Len(printed) : printed[i] \in FailureLines})

\* C4 as claimed: no failure of any external call leaves main
C4_NoFailurePropagates == pc # "raised"

\* C4 as amended: an Exception raised by a simulation pass or by an evaluate
\* submission never leaves main, and each one is logged; main ends by an
\* exception only before the first simulation pass, with nothing logged, or
\* when the await of a pass or an evaluate submission ends with a
\* BaseException that "except Exception" does not catch, which is not logged
\* either
C4_PhaseFailuresContained ==
    /\ LoggedFailures = FailedCalls
    /\ FailedPasses # {} => pc = "returned"
    /\ (eval_calls # <<>> /\ Raised(eval_calls[Len(eval_calls)].outcome)) =>
          pc # "raised"
    /\ pc = "raised" =>
          \/ /\ sim_calls = <<>>
             /\ eval_calls = <<>>
             /\ ~ \E i \in 1..Len(printed) : printed[i] \in FailureLines
          \/ CancelledPasses = {Len(sim_calls)}
          \/ InterruptedSubmissions = {Len(eval_calls)}
    /\ CancelledPasses # {} => pc = "raised"
    /\ InterruptedSubmissions # {} => pc = "raised"

\* C4 witness: the first baseline submission and the jailbreak pass raised, and
\* main returned normally
C4_Witness ==
    /\ pc = "returned"
    /\ FailedCalls = 2
    /\ sim_calls[Len(sim_calls)].outcome = "raised"

BaselineEvaluationSucceeded ==
    \E i \in 1..Len(eval_calls) :
        /\ eval_calls[i].phase = "baseline"
        /\ eval_calls[i].outcome = "returned"

\* C5: once a baseline submission (first or fallback) has returned, the
\* jailbreak simulation is the next step of main or has been invoked; main
\* never ends without it.
C5_JailbreakFollowsBaselineSuccess ==
    BaselineEvaluationSucceeded =>
        \/ pc = "simulate_jailbreak" /\ ENABLED CallSimulatorJailbreak
        \/ JailbreakSimulationInvoked

\* C5 witness: the first baseline submission raised, the fallback returned and
\* the jailbreak simulation was invoked
C5_Witness ==
    /\ Len(PhaseCalls("baseline")) = 2
    /\ PhaseCalls("baseline")[2].outcome = "returned"
    /\ JailbreakSimulationInvoked

BaselineWrites ==
    Cardinality({i \in 1..Len(eval_calls) :
                    /\ eval_calls[i].phase = "baseline"
                    /\ Wrote(eval_calls[i].outcome)})

\* a pass that ended without a transcript ended the run: it is the last call,
\* no step is left to take and no submission was made for that pass; when it is
\* the jailbreak pass, ./adversarial_test.json still holds what the baseline
\* phase wrote and was written by the baseline submissions only
PassEndedRun(i) ==
    /\ i = Len(sim_calls)
    /\ Ended
    /\ ~ ENABLED Next
    /\ IF sim_calls[i].kwargs.jailbreak
       THEN /\ PhaseCalls("jailbreak") = <<>>
            /\ files[OutputPathJailbreak].writes = 0
            /\ files[OutputPath].content = <<adversarial_conversation_result>>
            /\ files[OutputPath].writes = BaselineWrites
            /\ BaselineWrites >= 1
       ELSE /\ eval_calls = <<>>
            /\ \A p \in Paths : files[p].writes = 0

\* the failure line of a pass
PassFailureLine(i) ==
    IF sim_calls[i].kwargs.jailbreak
    THEN "jailbreak_simulation_failed"
    ELSE "simulation_failed"

\* C6 as claimed: when a simulation pass has ended with an exception, whichever
\* it is, main has logged that pass's failure and returned, without a
\* submission for that pass and with the baseline file as it was
C6_EveryPassFailureLogged ==
    \A i \in FailedPasses \cup CancelledPasses :
        /\ PassEndedRun(i)
        /\ pc = "returned"
        /\ printed[Len(printed)] = PassFailureLine(i)

\* C6 as amended: when a simulation pass has raised an Exception, main has
\* logged that pass's failure as its last line and returned; when the await of
\* the pass ended with a BaseException that is not an Exception (a
\* cancellation), main logged nothing for it and ended by that exception; in
\* both cases the run is over, no submission was made for that pass and the
\* baseline file is as the baseline phase left it
C6_SimulationFailureEndsRun ==
    /\ \A i \in FailedPasses :
          /\ PassEndedRun(i)
          /\ pc = "returned"
          /\ printed[Len(printed)] = PassFailureLine(i)
    /\ \A i \in CancelledPasses :
          /\ PassEndedRun(i)
          /\ pc = "raised"
          /\ ~ Contains(printed, PassFailureLine(i))

\* C6 witness: the jailbreak pass raised after a baseline phase that wrote its file
C6_Witness ==
    /\ Len(sim_calls) = 2
    /\ sim_calls[2].outcome = "raised"
    /\ files[OutputPath].writes = 1

FirstAttemptReturned(ph) ==
    /\ Len(PhaseCalls(ph)) >= 1
    /\ PhaseCalls(ph)[1].outcome = "returned"

BothPassesReturned ==
    /\ Len(sim_calls) = 2
    /\ \A i \in 1..2 : sim_calls[i].outcome = "returned"

NoFallbackMade == \A i \in 1..Len(eval_calls) : eval_calls[i].attempt = 1

BothFilesWritten == \A p \in Paths : files[p].writes >= 1

\* C10 as claimed: a run with a valid location whose simulation passes returned
\* and whose first baseline submission returned ends with both files written
\* and no fallback submission made
C10_BaselineSuccessMeansNoFallback ==
    (/\ Ended
     /\ azure_location \in valid_locations
     /\ BothPassesReturned
     /\ FirstAttemptReturned("baseline"))
    => /\ BothFilesWritten
       /\ NoFallbackMade

\* C10 as amended: when the first jailbreak submission returned too, both phases
\* ran, both files are written (once each, with their phase's data), no
\* fallback submission was made and main goes on to the summary
C10_BothFirstAttemptsSucceed ==
    (/\ azure_location \in valid_locations
     /\ BothPassesReturned
     /\ FirstAttemptReturned("baseline")
     /\ FirstAttemptReturned("jailbreak"))
    => /\ BothFilesWritten
       /\ NoFallbackMade
       /\ Len(eval_calls) = 2
       /\ files[OutputPath] =
              [writes |-> 1, content |-> <<adversarial_conversation_result>>]
       /\ files[OutputPathJailbreak] =
              [writes |-> 1, content |-> <<adversarial_conversation_result_w_jailbreak>>]
       /\ pc \in {"summary", "returned"}
       /\ pc = "returned" => printed[Len(printed)] = "summary"

\* C10 witness: a run on uksouth that ended with the summary and two submissions
C10_Witness ==
    /\ pc = "returned"
    /\ azure_location = "uksouth"
    /\ Len(eval_calls) = 2
    /\ Contains(printed, "summary")


(***************************************************************************)
(* Properties of callback (specification SpecCallback).                    *)
(***************************************************************************)
LastChatCall == chat_calls[Len(chat_calls)]

\* the call that has just ended made a get_response call
CallEndedAfterChat == cb_pc # "idle" /\ cb_entry # <<>> /\ chat_calls # <<>>

UserIndexes(msgs) == {i \in 1..Len(msgs) : msgs[i].role = "user"}

\* the most recent user message of a list that holds one
MostRecentUser(msgs) ==
    msgs[CHOOSE i \in UserIndexes(msgs) : \A j \in UserIndexes(msgs) : j <= i]

WithFileContent(text) ==
    IF "file_content" \in DOMAIN template_parameters
    THEN text \o template_parameters.file_content
    ELSE text

\* C7: the query passed to the chat function is built from the most recent
\* user message of the list callback was given
C7_QueryFromMostRecentUser ==
    (CallEndedAfterChat /\ UserIndexes(cb_entry) # {}) =>
        LastChatCall.query = WithFileContent(MostRecentUser(cb_entry).content)

\* C8: a call that returned left the list one message longer: the messages it
\* was given are its prefix, unchanged and in order, and the last message has
\* role assistant, the chat function's answer as content and an empty context
C8_AppendsOneAssistantMessage ==
    cb_pc = "returned" =>
        /\ Len(messages) = Len(cb_entry) + 1
        /\ SubSeq(messages, 1, Len(cb_entry)) = cb_entry
        /\ LastChatCall.result[1] = "answer"
        /\ DOMAIN messages[Len(messages)] = {"content", "role", "context"}
        /\ messages[Len(messages)].role = "assistant"
        /\ messages[Len(messages)].content = LastChatCall.result[2]
        /\ messages[Len(messages)].context = <<>>

\* C8 witness: a call returned on a list that held three messages
C8_Witness ==
    /\ cb_pc = "returned"
    /\ Len(cb_entry) = 3
    /\ Len(messages) = 4

\* C9: the query is the first message's content when template_parameters has
\* no file_content entry and the first message's content followed by the file
\* content when it has one; the history argument is the empty list
C9_QueryIsFirstMessagePlusFile ==
    CallEndedAfterChat =>
        /\ "file_content" \notin DOMAIN template_parameters =>
               LastChatCall.query = cb_entry[1].content
        /\ "file_content" \in DOMAIN template_parameters =>
               LastChatCall.query = cb_entry[1].content \o template_parameters.file_content
        /\ LastChatCall.history = <<>>

\* C9 witness: a call with a non-empty file content on a multi-turn list
C9_Witness ==
    /\ cb_pc = "returned"
    /\ Len(cb_entry) = 3
    /\ "file_content" \in DOMAIN template_parameters
    /\ template_parameters.file_content = <<"f">>
    /\ LastChatCall.query = cb_entry[1].content \o <<"f">>


(***************************************************************************)
(* Further properties of main (specification Spec).                        *)
(***************************************************************************)
PhasePath(ph) == IF ph = "baseline" THEN OutputPath ELSE OutputPathJailbreak

\* the submissions of a phase that wrote their output file
PhaseWrites(ph) ==
    Cardinality({i \in 1..Len(eval_calls) :
                    /\ eval_calls[i].phase = ph
                    /\ Wrote(eval_calls[i].outcome)})

\* C11 as claimed: each output file is written at most once in a run
C11_WrittenAtMostOnce == \A p \in Paths : files[p].writes <= 1

\* C11 as amended: an output file is written by its own phase's submissions
\* only (each evaluate call taken to write its output_path at most once), so
\* at most twice; it is written twice exactly when the first submission wrote
\* it and then raised an Exception and the fallback, made for the same path,
\* wrote it again
C11_WrittenOncePerSubmission ==
    \A ph \in Phases :
        LET calls == PhaseCalls(ph) IN
        /\ \A i \in 1..Len(calls) : calls[i].args.output_path = PhasePath(ph)
        /\ files[PhasePath(ph)].writes = PhaseWrites(ph)
        /\ files[PhasePath(ph)].writes <= 2
        /\ files[PhasePath(ph)].writes = 2 <=>
              /\ Len(calls) = 2
              /\ calls[1].outcome = "written_then_raised"
              /\ Wrote(calls[2].outcome)
        /\ files[PhasePath(ph)].writes >= 1 =>
              files[PhasePath(ph)].content = <<calls[1].args.data>>

\* C11 witness: the first baseline submission wrote and raised, the fallback
\* wrote ./adversarial_test.json a second time
C11_Witness ==
    /\ files[OutputPath].writes = 2
    /\ PhaseCalls("baseline")[1].outcome = "written_then_raised"
    /\ PhaseCalls("baseline")[2].outcome = "returned"


PassReturned(jailbreak) ==
    \E i \in 1..Len(sim_calls) :
        /\ sim_calls[i].kwargs.jailbreak = jailbreak
        /\ sim_calls[i].outcome = "returned"

PhaseEvaluationSucceeded(ph) ==
    \E i \in 1..Len(eval_calls) :
        /\ eval_calls[i].phase = ph
        /\ eval_calls[i].outcome = "returned"

\* what every step of a run respects: at most one pass is in progress, the
\* last one begun, and main is suspended at its await exactly then; a
\* submission starts only when no pass is in progress and after its phase's
\* pass returned (a baseline one only before the jailbreak pass); a pass
\* begins only when none is in progress, the baseline pass as the first call
\* of the run and the jailbreak pass only after a baseline submission
\* returned; the target is called only within a pass in progress, while main
\* stands still; the summary is printed only after a jailbreak submission
\* returned
C12_Step ==
    /\ PendingPasses \subseteq {Len(sim_calls)}
    /\ PendingPasses # {} <=> SimulatorRunning
    /\ eval_calls' # eval_calls =>
          /\ sim_calls' = sim_calls
          /\ PendingPasses = {}
          /\ cb_vars' = cb_vars
          /\ Len(eval_calls') = Len(eval_calls) + 1
          /\ SubSeq(eval_calls', 1, Len(eval_calls)) = eval_calls
          /\ LET c == eval_calls'[Len(eval_calls')] IN
                IF c.phase = "baseline"
                THEN PassReturned(FALSE) /\ ~ JailbreakSimulationInvoked
                ELSE PassReturned(TRUE) /\ PhaseEvaluationSucceeded("baseline")
    /\ Len(sim_calls') # Len(sim_calls) =>
          /\ eval_calls' = eval_calls
          /\ PendingPasses = {}
          /\ cb_vars' = cb_vars
          /\ Len(sim_calls') = Len(sim_calls) + 1
          /\ SubSeq(sim_calls', 1, Len(sim_calls)) = sim_calls
          /\ LET c == sim_calls'[Len(sim_calls')] IN
                /\ c.outcome = "pending"
                /\ IF c.kwargs.jailbreak
                   THEN /\ Len(sim_calls) = 1
                        /\ PassReturned(FALSE)
                        /\ PhaseEvaluationSucceeded("baseline")
                        /\ PhaseCalls("jailbreak") = <<>>
                   ELSE sim_calls = <<>> /\ eval_calls = <<>>
    /\ (sim_calls' # sim_calls /\ Len(sim_calls') = Len(sim_calls)) =>
          /\ eval_calls' = eval_calls
          /\ PendingPasses = {Len(sim_calls)}
          /\ SubSeq(sim_calls', 1, Len(sim_calls) - 1)
                = SubSeq(sim_calls, 1, Len(sim_calls) - 1)
    /\ cb_vars' # cb_vars =>
          /\ PendingPasses = {Len(sim_calls)}
          /\ pc' = pc
          /\ eval_calls' = eval_calls
          /\ files' = files
    /\ (Contains(printed', "summary") /\ ~ Contains(printed, "summary")) =>
          /\ sim_calls' = sim_calls
          /\ eval_calls' = eval_calls
          /\ PendingPasses = {}
          /\ PassReturned(TRUE)
          /\ PhaseEvaluationSucceeded("jailbreak")

\* C12: the external calls of a run occur in the order baseline simulation,
\* baseline evaluation, jailbreak simulation, jailbreak evaluation, summary:
\* no submission before its phase's simulation returned, no jailbreak
\* simulation before a baseline submission returned, one call at a time.
C12_FixedOrder == [][C12_Step]_vars

\* C12 witness: a run that went through all five stages, with both fallbacks,
\* the target having been called within each pass
C12_Witness ==
    /\ pc = "returned"
    /\ Contains(printed, "summary")
    /\ Len(sim_calls) = 2
    /\ \A i \in 1..2 : sim_calls[i].conversations = 1
    /\ Len(chat_calls) = 2
    /\ Len(eval_calls) = 4


(***************************************************************************)
(* Further properties of callback (specification SpecCallback).            *)
(***************************************************************************)
AssistantMessages ==
    Cardinality({i \in 1..Len(messages) : messages[i].role = "assistant"})

\* C13: a get_response call that raised is the last one made: the failure has
\* left callback (nothing is returned), the call was not repeated (one call
\* per invocation: one for each assistant message appended before, and this
\* one), and the message list is as it was on entry
C13_ChatFailurePropagates ==
    \A i \in 1..Len(chat_calls) :
        chat_calls[i].result = <<"raised">> =>
            /\ i = Len(chat_calls)
            /\ cb_pc = "raised"
            /\ cb_return = None
            /\ messages = cb_entry
            /\ Len(chat_calls) = AssistantMessages + 1

\* C13 witness: get_response raised on the second turn of a conversation
C13_Witness ==
    /\ cb_pc = "raised"
    /\ Len(cb_entry) = 3
    /\ Len(chat_calls) = 2
    /\ chat_calls[2].result = <<"raised">>
    /\ messages = cb_entry

\* C14: a call that returned gave back the stream flag and the session_state
\* it was given, and as messages the envelope's updated list
C14_PassThrough ==
    cb_pc = "returned" =>
        /\ DOMAIN cb_return = {"messages", "stream", "session_state"}
        /\ cb_return.stream = stream
        /\ cb_return.session_state = session_state
        /\ cb_return.messages = messages

\* C14 witness: a call with stream = True and a session token returned
C14_Witness ==
    /\ cb_pc = "returned"
    /\ stream = TRUE
    /\ session_state = [token |-> 1]
    /\ cb_return.stream = TRUE
    /\ cb_return.session_state = [token |-> 1]
    /\ Len(cb_return.messages) = 4


(***************************************************************************)
(* Properties of the run prefix (specification SpecRuns).                  *)
(***************************************************************************)
\* line 103 has run
PrefixComputed == pc = "evaluate" \/ eval_calls # <<>>

\* two strings that are not equal on their first n characters
DifferWithin(a, b, n) ==
    \/ Min(Len(a), n) # Min(Len(b), n)
    \/ \E i \in 1..Min(Len(a), n) : a[i] # b[i]

IsTimestamp(source) == Len(source) = 12

NamesOfThisRun ==
    \A i \in 1..Len(eval_calls) :
        eval_calls[i].args.evaluation_name =
            IF eval_calls[i].phase = "baseline"
            THEN prefix \o <<" Adversarial Tests">>
            ELSE prefix \o <<" Adversarial Tests w/ Jailbreak">>

\* C15 as claimed: two runs with different prefix sources have different
\* prefixes and different evaluation names
C15_DistinctSourcesDistinctNames ==
    (PrefixComputed /\ prefix_source # other_run.source) =>
        /\ prefix # other_run.prefix
        /\ EvaluationName(prefix) # EvaluationName(other_run.prefix)
        /\ EvaluationNameJailbreak(prefix) # EvaluationNameJailbreak(other_run.prefix)

\* C15 as amended: the prefixes, and the evaluation names, of two runs differ
\* exactly when the sources differ within their first 14 characters, as two
\* different timestamps always do; within the run every submission, of either
\* phase and either attempt, is named with the one prefix of the run
C15_DistinctWithinFourteen ==
    PrefixComputed =>
        /\ Len(prefix) <= 14
        /\ DifferWithin(prefix_source, other_run.source, 14)
               <=> prefix # other_run.prefix
        /\ prefix # other_run.prefix
               <=> EvaluationName(prefix) # EvaluationName(other_run.prefix)
        /\ prefix # other_run.prefix
               <=> EvaluationNameJailbreak(prefix)
                       # EvaluationNameJailbreak(other_run.prefix)
        /\ (/\ IsTimestamp(prefix_source)
            /\ IsTimestamp(other_run.source)
            /\ prefix_source # other_run.source) => prefix # other_run.prefix
        /\ NamesOfThisRun

\* C15 witness: two runs started in different seconds, this one with both
\* phases and both attempts submitted
C15_Witness ==
    /\ Len(eval_calls) = 4
    /\ IsTimestamp(prefix_source)
    /\ IsTimestamp(other_run.source)
    /\ prefix_source # other_run.source
    /\ prefix # other_run.prefix


(***************************************************************************)
(* Termination of main (specification FairSpec).                           *)
(***************************************************************************)
\* C16: every run of main ends, and at no point has it made more than two
\* simulator invocations or more than four evaluate submissions
C16_Terminates ==
    /\ <>Ended
    /\ [](Len(sim_calls) <= 2 /\ Len(eval_calls) <= 4)

\* C16 witness: a run that ended after two simulator invocations and four
\* submissions
C16_Witness ==
    /\ Ended
    /\ Len(sim_calls) = 2
    /\ Len(eval_calls) = 4
    /\ ~ ENABLED Next


(***************************************************************************)
(* The azure_ai_project dict (specification Spec).                         *)
(***************************************************************************)
SameProjectIds(a, b) ==
    /\ a.subscription_id = b.subscription_id
    /\ a.resource_group_name = b.resource_group_name
    /\ a.project_name = b.project_name

FirstSubmissions == {i \in 1..Len(eval_calls) : eval_calls[i].attempt = 1}

\* C17 as claimed: the dict the simulator was constructed with is not modified
\* afterwards; every simulation sees the credential of the construction, and
\* the first submissions pass the binding the simulator was given
C17_BindingUnchanged ==
    simulator # None =>
        /\ azure_ai_project = simulator.constructed_with
        /\ \A i \in 1..Len(sim_calls) :
              sim_calls[i].project.credential = simulator.constructed_with.credential
        /\ \A i \in FirstSubmissions :
              eval_calls[i].args.azure_ai_project = simulator.constructed_with

\* C17 as amended: subscription, resource group and project name of the dict
\* never change, and the baseline simulation sees the credential of the
\* construction; from the first baseline submission on the credential is the
\* empty string: for the first submission of each phase and for the jailbreak
\* simulation
C17_OnlyCredentialBlanked ==
    simulator # None =>
        /\ simulator.constructed_with.credential = "DefaultAzureCredential()"
        /\ DOMAIN azure_ai_project = DOMAIN simulator.constructed_with
        /\ SameProjectIds(azure_ai_project, simulator.constructed_with)
        /\ azure_ai_project.credential =
              IF eval_calls = <<>> THEN simulator.constructed_with.credential ELSE ""
        /\ \A i \in 1..Len(sim_calls) :
              /\ SameProjectIds(sim_calls[i].project, simulator.constructed_with)
              /\ sim_calls[i].project.credential =
                    IF sim_calls[i].kwargs.jailbreak
                    THEN ""
                    ELSE simulator.constructed_with.credential
        /\ \A i \in FirstSubmissions :
              /\ SameProjectIds(eval_calls[i].args.azure_ai_project,
                                simulator.constructed_with)
              /\ eval_calls[i].args.azure_ai_project.credential = ""

\* C17 witness: the jailbreak simulation and the first jailbreak submission
\* were made with the blanked credential
C17_Witness ==
    /\ Len(sim_calls) = 2
    /\ sim_calls[1].project.credential = "DefaultAzureCredential()"
    /\ sim_calls[2].project.credential = ""
    /\ PhaseCalls("jailbreak") # <<>>
    /\ PhaseCalls("jailbreak")[1].args.azure_ai_project.credential = ""


(***************************************************************************)
(* Data and paths of the submissions, and the summary (specification Spec). *)
(***************************************************************************)
\* C18: every submission of the baseline phase, first or fallback, carries the
\* converted non-jailbreak transcript and writes ./adversarial_test.json, every
\* submission of the jailbreak phase carries the converted jailbreak
\* transcript and writes ./adversarial_test_w_jailbreak.json; each file holds
\* its own phase's data or nothing
C18_OwnDataOwnPath ==
    /\ \A i \in 1..Len(eval_calls) :
          LET c == eval_calls[i] IN
          IF c.phase = "baseline"
          THEN /\ c.args.data = adversarial_conversation_result
               /\ c.args.data.of.jailbreak = FALSE
               /\ c.args.output_path = "./adversarial_test.json"
          ELSE /\ c.args.data = adversarial_conversation_result_w_jailbreak
               /\ c.args.data.of.jailbreak = TRUE
               /\ c.args.output_path = "./adversarial_test_w_jailbreak.json"
    /\ files["./adversarial_test.json"].content
           \in {<<>>, <<adversarial_conversation_result>>}
    /\ files["./adversarial_test_w_jailbreak.json"].content
           \in {<<>>, <<adversarial_conversation_result_w_jailbreak>>}
    /\ files["./adversarial_test.json"].writes = PhaseWrites("baseline")
    /\ files["./adversarial_test_w_jailbreak.json"].writes = PhaseWrites("jailbreak")

\* C18 witness: both phases made both submissions
C18_Witness ==
    /\ Len(eval_calls) = 4
    /\ eval_calls[2].phase = "baseline"
    /\ eval_calls[2].attempt = 2
    /\ eval_calls[4].phase = "jailbreak"
    /\ eval_calls[4].attempt = 2
    /\ eval_calls[4].outcome = "returned"
    /\ files[OutputPathJailbreak].content = <<eval_calls[4].args.data>>

\* C19: a run that has ended printed the summary line exactly if both passes
\* returned and a submission of each phase, first or fallback, returned; the
\* line is printed once, as the last line, and only by a run that ends with it
C19_SummaryIffBothPhasesSucceeded ==
    /\ Ended =>
          (Contains(printed, "summary") <=>
              /\ PassReturned(FALSE)
              /\ PassReturned(TRUE)
              /\ PhaseEvaluationSucceeded("baseline")
              /\ PhaseEvaluationSucceeded("jailbreak"))
    /\ Contains(printed, "summary") =>
          /\ pc = "returned"
          /\ Count(printed, "summary") = 1
          /\ printed[Len(printed)] = "summary"

\* C19 witness: the summary was printed by a run in which only the fallback
\* submissions returned
C19_Witness ==
    /\ pc = "returned"
    /\ printed[Len(printed)] = "summary"
    /\ Len(eval_calls) = 4
    /\ \A i \in 1..4 : eval_calls[i].outcome = "returned" <=> eval_calls[i].attempt = 2

====
